---- MODULE Spec2Model ----
(***************************************************************************)
(* Transaction hash computation of crates/primitives/transactions          *)
(* (compute_hash.rs).                                                      *)
(*                                                                         *)
(* Every compute_hash of the source ends in one call of                    *)
(* H::compute_hash_on_elements on an array of field elements.  The model   *)
(* keeps that call observable: a compute_hash operator yields the record   *)
(* [fed |-> the array handed to H, hash |-> the element H returns].        *)
(*                                                                         *)
(* Field elements are 252-bit in the program; here the field is scaled     *)
(* down to FieldBits bits so that the arithmetic the code performs         *)
(* (addition of the simulate offset, reduction modulo ADDR_BOUND) stays    *)
(* within the integers of the model checker.  The domain prefixes, whose   *)
(* real values are the big-endian readings of their byte strings, are      *)
(* pairwise distinct stand-ins in the scaled field.                        *)
(***************************************************************************)
EXTENDS Integers, Sequences, FiniteSets

VARIABLES tx, key, op, chain_id, is_query, block_number, fed, hash, address

vars == <<tx, key, op, chain_id, is_query, block_number, fed, hash, address>>

(***************************************************************************)
(* Bounds of the model.                                                    *)
(***************************************************************************)
FieldBits == 6
MaxFelt == 1
MaxCalldataLen == 1
MaxHeight == 5
MaxKey == 0

(***************************************************************************)
(* Field arithmetic (starknet_crypto::FieldElement), scaled down.          *)
(* Program: PRIME = 2^251 + 17 * 2^192 + 1.                                *)
(***************************************************************************)
PRIME == 2^FieldBits + 3

Felt == 0 .. (PRIME - 1)

FieldElement_ZERO == 0
FieldElement_ONE == 1
FieldElement_TWO == 2

\* impl Add for FieldElement
FieldElement_add(a, b) == (a + b) % PRIME

\* impl Rem for FieldElement: remainder of the canonical representatives
FieldElement_rem(a, b) == a % b

\* FieldElement::from(u64 / u128 / usize): total, the value itself
FieldElement_from(n) == n % PRIME

\* Felt252Wrapper -> FieldElement (.into()): the wrapped element
Felt252Wrapper_into(w) == w

(***************************************************************************)
(* Constants of the source.                                                *)
(***************************************************************************)
\* FieldElement::from_byte_slice_be(b"...").unwrap() of the five prefixes
DECLARE_PREFIX == 11
DEPLOY_ACCOUNT_PREFIX == 12
DEPLOY_PREFIX == 13
INVOKE_PREFIX == 14
L1_HANDLER_PREFIX == 15

\* Cairo string for "STARKNET_CONTRACT_ADDRESS"
PREFIX_CONTRACT_ADDRESS == 16

\* starknet_keccak(b"constructor")
CONSTRUCTOR_SELECTOR == 17

\* Program: 2 ** 251 - 256
ADDR_BOUND == 2^FieldBits - 4

\* Program: 2 ** 128, imported from the crate root
SIMULATE_TX_VERSION_OFFSET == 2^(FieldBits \div 2)

\* Block-height thresholds imported from the crate root; the L1-handler
\* cutoff is the older (lower) one.
LEGACY_L1_HANDLER_BLOCK == 2
LEGACY_BLOCK_NUMBER == 4

(***************************************************************************)
(* Option<u64> and its derived ordering: None is less than every Some.     *)
(***************************************************************************)
None == <<>>
Some(h) == <<h>>

Option_lt(a, b) ==
    IF a = None THEN b # None
    ELSE IF b = None THEN FALSE
    ELSE a[1] < b[1]

Option_gt(a, b) == Option_lt(b, a)

(***************************************************************************)
(* Hash primitive.                                                         *)
(***************************************************************************)
\* Stand-in for the Pedersen hash of two elements; key selects one of
\* several such functions.
pedersen_hash(a, b) == (a * a + 5 * a + 3 * b + key + 1) % PRIME

RECURSIVE hash_chain(_, _)
hash_chain(current_hash, data) ==
    IF data = <<>> THEN current_hash
    ELSE hash_chain(pedersen_hash(current_hash, Head(data)), Tail(data))

\* starknet_core::crypto::compute_hash_on_elements
compute_hash_on_elements(data) ==
    pedersen_hash(hash_chain(FieldElement_ZERO, data), FieldElement_from(Len(data)))

\* H::compute_hash_on_elements, observed: the array it is given and its result
H_compute_hash_on_elements(elements) ==
    [fed |-> elements, hash |-> compute_hash_on_elements(elements)]

\* convert_calldata: the same elements, viewed as FieldElement
convert_calldata(data) == [i \in 1 .. Len(data) |-> Felt252Wrapper_into(data[i])]

(***************************************************************************)
(* Per-variant encoders.                                                   *)
(***************************************************************************)
\* Variant of the encoder whose cutoff test is ">=" instead of ">"
InvokeTransactionV0_compute_hash_cutoff_exclusive(self, chain, query, height) ==
    LET prefix == INVOKE_PREFIX
        version == IF query THEN SIMULATE_TX_VERSION_OFFSET ELSE FieldElement_ZERO
        contract_address == Felt252Wrapper_into(self.contract_address)
        entrypoint_selector == Felt252Wrapper_into(self.entry_point_selector)
        calldata_hash == compute_hash_on_elements(convert_calldata(self.calldata))
        max_fee == FieldElement_from(self.max_fee)
    IN  IF ~Option_lt(height, Some(LEGACY_BLOCK_NUMBER))
        THEN H_compute_hash_on_elements(
                 <<prefix, version, contract_address, entrypoint_selector,
                   calldata_hash, max_fee, chain>>)
        ELSE H_compute_hash_on_elements(
                 <<prefix, contract_address, entrypoint_selector, calldata_hash, chain>>)

\* Variant of the encoder that never adds the simulate offset
InvokeTransactionV0_compute_hash_no_offset(self, chain, query, height) ==
    LET prefix == INVOKE_PREFIX
        version == FieldElement_ZERO
        contract_address == Felt252Wrapper_into(self.contract_address)
        entrypoint_selector == Felt252Wrapper_into(self.entry_point_selector)
        calldata_hash == compute_hash_on_elements(convert_calldata(self.calldata))
        max_fee == FieldElement_from(self.max_fee)
    IN  IF Option_gt(height, Some(LEGACY_BLOCK_NUMBER))
        THEN H_compute_hash_on_elements(
                 <<prefix, version, contract_address, entrypoint_selector,
                   calldata_hash, max_fee, chain>>)
        ELSE H_compute_hash_on_elements(
                 <<prefix, contract_address, entrypoint_selector, calldata_hash, chain>>)

\* impl ComputeTransactionHash for InvokeTransactionV0
InvokeTransactionV0_compute_hash(self, chain, query, height) ==
    LET prefix == INVOKE_PREFIX
        version == IF query THEN SIMULATE_TX_VERSION_OFFSET ELSE FieldElement_ZERO
        contract_address == Felt252Wrapper_into(self.contract_address)
        entrypoint_selector == Felt252Wrapper_into(self.entry_point_selector)
        calldata_hash == compute_hash_on_elements(convert_calldata(self.calldata))
        max_fee == FieldElement_from(self.max_fee)
    IN  IF Option_gt(height, Some(LEGACY_BLOCK_NUMBER))
        THEN H_compute_hash_on_elements(
                 <<prefix, version, contract_address, entrypoint_selector,
                   calldata_hash, max_fee, chain>>)
        ELSE H_compute_hash_on_elements(
                 <<prefix, contract_address, entrypoint_selector, calldata_hash, chain>>)

\* Variant of the encoder that inlines the calldata instead of hashing it
InvokeTransactionV1_compute_hash_inlined(self, chain, query, height) ==
    LET prefix == INVOKE_PREFIX
        version == IF query
                   THEN FieldElement_add(SIMULATE_TX_VERSION_OFFSET, FieldElement_ONE)
                   ELSE FieldElement_ONE
        sender_address == Felt252Wrapper_into(self.sender_address)
        entrypoint_selector == FieldElement_ZERO
        max_fee == FieldElement_from(self.max_fee)
        nonce == FieldElement_from(self.nonce)
    IN  H_compute_hash_on_elements(
            <<prefix, version, sender_address, entrypoint_selector>>
            \o convert_calldata(self.calldata)
            \o <<max_fee, chain, nonce>>)

\* impl ComputeTransactionHash for InvokeTransactionV1
InvokeTransactionV1_compute_hash(self, chain, query, height) ==
    LET prefix == INVOKE_PREFIX
        version == IF query
                   THEN FieldElement_add(SIMULATE_TX_VERSION_OFFSET, FieldElement_ONE)
                   ELSE FieldElement_ONE
        sender_address == Felt252Wrapper_into(self.sender_address)
        entrypoint_selector == FieldElement_ZERO
        calldata_hash == compute_hash_on_elements(convert_calldata(self.calldata))
        max_fee == FieldElement_from(self.max_fee)
        nonce == FieldElement_from(self.nonce)
    IN  H_compute_hash_on_elements(
            <<prefix, version, sender_address, entrypoint_selector,
              calldata_hash, max_fee, chain, nonce>>)

\* impl ComputeTransactionHash for InvokeTransaction
InvokeTransaction_compute_hash(self, chain, query, height) ==
    IF self.version = 0
    THEN InvokeTransactionV0_compute_hash(self, chain, query, height)
    ELSE InvokeTransactionV1_compute_hash(self, chain, query, height)

\* impl ComputeTransactionHash for DeclareTransactionV0
DeclareTransactionV0_compute_hash(self, chain, query, height) ==
    LET prefix == DECLARE_PREFIX
        version == FieldElement_ZERO
        sender_address == Felt252Wrapper_into(self.sender_address)
        entrypoint_selector == FieldElement_ZERO
        alignment_placeholder == compute_hash_on_elements(<<>>)
        max_fee == FieldElement_from(self.max_fee)
        class_hash == Felt252Wrapper_into(self.class_hash)
    IN  H_compute_hash_on_elements(
            <<prefix, version, sender_address, entrypoint_selector,
              alignment_placeholder, max_fee, chain, class_hash>>)

\* Variant of the encoder that adds the simulate offset to the version
DeclareTransactionV1_compute_hash_with_offset(self, chain, query, height) ==
    LET prefix == DECLARE_PREFIX
        version == IF query
                   THEN FieldElement_add(SIMULATE_TX_VERSION_OFFSET, FieldElement_ONE)
                   ELSE FieldElement_ONE
        sender_address == Felt252Wrapper_into(self.sender_address)
        entrypoint_selector == FieldElement_ZERO
        calldata == compute_hash_on_elements(<<Felt252Wrapper_into(self.class_hash)>>)
        max_fee == FieldElement_from(self.max_fee)
        nonce == FieldElement_from(self.nonce)
    IN  H_compute_hash_on_elements(
            <<prefix, version, sender_address, entrypoint_selector,
              calldata, max_fee, chain, nonce>>)

\* impl ComputeTransactionHash for DeclareTransactionV1
DeclareTransactionV1_compute_hash(self, chain, query, height) ==
    LET prefix == DECLARE_PREFIX
        version == FieldElement_ONE
        sender_address == Felt252Wrapper_into(self.sender_address)
        entrypoint_selector == FieldElement_ZERO
        calldata == compute_hash_on_elements(<<Felt252Wrapper_into(self.class_hash)>>)
        max_fee == FieldElement_from(self.max_fee)
        nonce == FieldElement_from(self.nonce)
    IN  H_compute_hash_on_elements(
            <<prefix, version, sender_address, entrypoint_selector,
              calldata, max_fee, chain, nonce>>)

\* impl ComputeTransactionHash for DeclareTransactionV2
DeclareTransactionV2_compute_hash(self, chain, query, height) ==
    LET prefix == DECLARE_PREFIX
        version == IF query
                   THEN FieldElement_add(SIMULATE_TX_VERSION_OFFSET, FieldElement_TWO)
                   ELSE FieldElement_TWO
        sender_address == Felt252Wrapper_into(self.sender_address)
        entrypoint_selector == FieldElement_ZERO
        calldata == compute_hash_on_elements(<<Felt252Wrapper_into(self.class_hash)>>)
        max_fee == FieldElement_from(self.max_fee)
        nonce == FieldElement_from(self.nonce)
        compiled_class_hash == Felt252Wrapper_into(self.compiled_class_hash)
    IN  H_compute_hash_on_elements(
            <<prefix, version, sender_address, entrypoint_selector,
              calldata, max_fee, chain, nonce, compiled_class_hash>>)

\* impl ComputeTransactionHash for DeclareTransaction: the height is dropped
DeclareTransaction_compute_hash(self, chain, query, height) ==
    CASE self.version = 0 -> DeclareTransactionV0_compute_hash(self, chain, query, None)
      [] self.version = 1 -> DeclareTransactionV1_compute_hash(self, chain, query, None)
      [] self.version = 2 -> DeclareTransactionV2_compute_hash(self, chain, query, None)

(***************************************************************************)
(* Contract address derivation and the two deploy variants.                *)
(***************************************************************************)
\* Variant of the derivation that feeds class hash and salt in swapped order
DeployAccountTransaction_calculate_contract_address_swapped(contract_address_salt, class_hash, constructor_calldata) ==
    FieldElement_rem(
        compute_hash_on_elements(
            <<PREFIX_CONTRACT_ADDRESS, FieldElement_ZERO, class_hash, contract_address_salt,
              compute_hash_on_elements(constructor_calldata)>>),
        ADDR_BOUND)

\* DeployAccountTransaction::calculate_contract_address
DeployAccountTransaction_calculate_contract_address(contract_address_salt, class_hash, constructor_calldata) ==
    FieldElement_rem(
        compute_hash_on_elements(
            <<PREFIX_CONTRACT_ADDRESS, FieldElement_ZERO, contract_address_salt, class_hash,
              compute_hash_on_elements(constructor_calldata)>>),
        ADDR_BOUND)

\* DeployAccountTransaction::get_account_address
DeployAccountTransaction_get_account_address(self) ==
    DeployAccountTransaction_calculate_contract_address(
        Felt252Wrapper_into(self.contract_address_salt),
        Felt252Wrapper_into(self.class_hash),
        convert_calldata(self.constructor_calldata))

\* DeployAccountTransaction::compute_hash_given_contract_address
DeployAccountTransaction_compute_hash_given_contract_address(self, chain, contract_address, query) ==
    LET prefix == DEPLOY_ACCOUNT_PREFIX
        version == IF query
                   THEN FieldElement_add(SIMULATE_TX_VERSION_OFFSET, FieldElement_ONE)
                   ELSE FieldElement_ONE
        entrypoint_selector == FieldElement_ZERO
        calldata == <<Felt252Wrapper_into(self.class_hash),
                      Felt252Wrapper_into(self.contract_address_salt)>>
                    \o convert_calldata(self.constructor_calldata)
        calldata_hash == compute_hash_on_elements(calldata)
        max_fee == FieldElement_from(self.max_fee)
        nonce == FieldElement_from(self.nonce)
    IN  H_compute_hash_on_elements(
            <<prefix, version, contract_address, entrypoint_selector,
              calldata_hash, max_fee, chain, nonce>>)

\* impl ComputeTransactionHash for DeployAccountTransaction
DeployAccountTransaction_compute_hash(self, chain, query, height) ==
    LET contract_address == DeployAccountTransaction_get_account_address(self)
    IN  DeployAccountTransaction_compute_hash_given_contract_address(
            self, chain, contract_address, query)

\* Variant of the derivation without the reduction modulo ADDR_BOUND
DeployTransaction_calculate_contract_address_unreduced(contract_address_salt, class_hash, constructor_calldata) ==
    compute_hash_on_elements(
        <<PREFIX_CONTRACT_ADDRESS, FieldElement_ZERO, contract_address_salt, class_hash,
          compute_hash_on_elements(constructor_calldata)>>)

\* DeployTransaction::calculate_contract_address
DeployTransaction_calculate_contract_address(contract_address_salt, class_hash, constructor_calldata) ==
    FieldElement_rem(
        compute_hash_on_elements(
            <<PREFIX_CONTRACT_ADDRESS, FieldElement_ZERO, contract_address_salt, class_hash,
              compute_hash_on_elements(constructor_calldata)>>),
        ADDR_BOUND)

\* DeployTransaction::get_account_address
DeployTransaction_get_account_address(self) ==
    DeployTransaction_calculate_contract_address(
        Felt252Wrapper_into(self.contract_address_salt),
        Felt252Wrapper_into(self.class_hash),
        convert_calldata(self.constructor_calldata))

\* DeployTransaction::compute_hash_given_contract_address
DeployTransaction_compute_hash_given_contract_address(self, chain, contract_address, query, height) ==
    LET prefix == DEPLOY_PREFIX
        version == FieldElement_ZERO
        constructor_calldata ==
            compute_hash_on_elements(convert_calldata(self.constructor_calldata))
        constructor == CONSTRUCTOR_SELECTOR
    IN  IF Option_gt(height, Some(LEGACY_BLOCK_NUMBER))
        THEN H_compute_hash_on_elements(
                 <<prefix, version, contract_address, constructor,
                   constructor_calldata, FieldElement_ZERO, chain>>)
        ELSE H_compute_hash_on_elements(
                 <<prefix, contract_address, constructor, constructor_calldata, chain>>)

\* impl ComputeTransactionHash for DeployTransaction
DeployTransaction_compute_hash(self, chain, query, height) ==
    LET contract_address == DeployTransaction_get_account_address(self)
    IN  DeployTransaction_compute_hash_given_contract_address(
            self, chain, contract_address, query, height)

(***************************************************************************)
(* L1 handler.                                                             *)
(***************************************************************************)
\* Variant of the encoder whose branch with nonce starts with the invoke prefix
HandleL1MessageTransaction_compute_hash_invoke_legacy(self, chain, query, height) ==
    LET prefix == L1_HANDLER_PREFIX
        invoke_prefix == INVOKE_PREFIX
        version == FieldElement_ZERO
        contract_address == Felt252Wrapper_into(self.contract_address)
        entrypoint_selector == Felt252Wrapper_into(self.entry_point_selector)
        calldata_hash == compute_hash_on_elements(convert_calldata(self.calldata))
        nonce == FieldElement_from(self.nonce)
    IN  IF Option_lt(height, Some(LEGACY_L1_HANDLER_BLOCK)) /\ height # None
        THEN H_compute_hash_on_elements(
                 <<invoke_prefix, contract_address, entrypoint_selector, calldata_hash, chain>>)
        ELSE IF Option_lt(height, Some(LEGACY_BLOCK_NUMBER)) /\ height # None
        THEN H_compute_hash_on_elements(
                 <<invoke_prefix, contract_address, entrypoint_selector, calldata_hash,
                   chain, nonce>>)
        ELSE H_compute_hash_on_elements(
                 <<prefix, version, contract_address, entrypoint_selector,
                   calldata_hash, FieldElement_ZERO, chain, nonce>>)

\* Variant of the encoder that does not exclude an absent height
HandleL1MessageTransaction_compute_hash_none_unchecked(self, chain, query, height) ==
    LET prefix == L1_HANDLER_PREFIX
        invoke_prefix == INVOKE_PREFIX
        version == FieldElement_ZERO
        contract_address == Felt252Wrapper_into(self.contract_address)
        entrypoint_selector == Felt252Wrapper_into(self.entry_point_selector)
        calldata_hash == compute_hash_on_elements(convert_calldata(self.calldata))
        nonce == FieldElement_from(self.nonce)
    IN  IF Option_lt(height, Some(LEGACY_L1_HANDLER_BLOCK))
        THEN H_compute_hash_on_elements(
                 <<invoke_prefix, contract_address, entrypoint_selector, calldata_hash, chain>>)
        ELSE IF Option_lt(height, Some(LEGACY_BLOCK_NUMBER))
        THEN H_compute_hash_on_elements(
                 <<prefix, contract_address, entrypoint_selector, calldata_hash,
                   chain, nonce>>)
        ELSE H_compute_hash_on_elements(
                 <<prefix, version, contract_address, entrypoint_selector,
                   calldata_hash, FieldElement_ZERO, chain, nonce>>)

\* impl ComputeTransactionHash for HandleL1MessageTransaction
HandleL1MessageTransaction_compute_hash(self, chain, query, height) ==
    LET prefix == L1_HANDLER_PREFIX
        invoke_prefix == INVOKE_PREFIX
        version == FieldElement_ZERO
        contract_address == Felt252Wrapper_into(self.contract_address)
        entrypoint_selector == Felt252Wrapper_into(self.entry_point_selector)
        calldata_hash == compute_hash_on_elements(convert_calldata(self.calldata))
        nonce == FieldElement_from(self.nonce)
    IN  IF Option_lt(height, Some(LEGACY_L1_HANDLER_BLOCK)) /\ height # None
        THEN H_compute_hash_on_elements(
                 <<invoke_prefix, contract_address, entrypoint_selector, calldata_hash, chain>>)
        ELSE IF Option_lt(height, Some(LEGACY_BLOCK_NUMBER)) /\ height # None
        THEN H_compute_hash_on_elements(
                 <<prefix, contract_address, entrypoint_selector, calldata_hash,
                   chain, nonce>>)
        ELSE H_compute_hash_on_elements(
                 <<prefix, version, contract_address, entrypoint_selector,
                   calldata_hash, FieldElement_ZERO, chain, nonce>>)

(***************************************************************************)
(* Dispatchers.                                                            *)
(***************************************************************************)
\* impl ComputeTransactionHash for Transaction
Transaction_compute_hash(self, chain, query, height) ==
    CASE self.kind = "Declare" -> DeclareTransaction_compute_hash(self, chain, query, height)
      [] self.kind = "DeployAccount" ->
             DeployAccountTransaction_compute_hash(self, chain, query, height)
      [] self.kind = "Deploy" -> DeployTransaction_compute_hash(self, chain, query, height)
      [] self.kind = "Invoke" -> InvokeTransaction_compute_hash(self, chain, query, height)
      [] self.kind = "L1Handler" ->
             HandleL1MessageTransaction_compute_hash(self, chain, query, height)

\* Variant of the dispatcher that forwards the caller's height
UserTransaction_compute_hash_height_forwarded(self, chain, query, height) ==
    CASE self.kind = "Declare" -> DeclareTransaction_compute_hash(self, chain, query, height)
      [] self.kind = "DeployAccount" ->
             DeployAccountTransaction_compute_hash(self, chain, query, height)
      [] self.kind = "Invoke" -> InvokeTransaction_compute_hash(self, chain, query, height)

\* impl ComputeTransactionHash for UserTransaction: every inner call gets None
UserTransaction_compute_hash(self, chain, query, height) ==
    CASE self.kind = "Declare" -> DeclareTransaction_compute_hash(self, chain, query, None)
      [] self.kind = "DeployAccount" ->
             DeployAccountTransaction_compute_hash(self, chain, query, None)
      [] self.kind = "Invoke" -> InvokeTransaction_compute_hash(self, chain, query, None)

(***************************************************************************)
(* Inputs.                                                                 *)
(***************************************************************************)
InputFelts == 0 .. MaxFelt

Calldatas == UNION {[1 .. n -> InputFelts] : n \in 0 .. MaxCalldataLen}

Heights == 0 .. MaxHeight

BlockNumbers == {None} \cup {Some(h) : h \in Heights}

Keys == 0 .. MaxKey

\* Chain identifiers the caller may pass (opaque field elements)
ChainIds == {0, 1}

InvokeV0s ==
    [kind : {"Invoke"}, version : {0}, contract_address : InputFelts,
     entry_point_selector : InputFelts, calldata : Calldatas, max_fee : InputFelts]

InvokeV1s ==
    [kind : {"Invoke"}, version : {1}, sender_address : InputFelts,
     calldata : Calldatas, max_fee : InputFelts, nonce : InputFelts]

DeclareV0s ==
    [kind : {"Declare"}, version : {0}, sender_address : InputFelts,
     max_fee : InputFelts, class_hash : InputFelts]

DeclareV1s ==
    [kind : {"Declare"}, version : {1}, sender_address : InputFelts,
     max_fee : InputFelts, nonce : InputFelts, class_hash : InputFelts]

DeclareV2s ==
    [kind : {"Declare"}, version : {2}, sender_address : InputFelts,
     max_fee : InputFelts, nonce : InputFelts, class_hash : InputFelts,
     compiled_class_hash : InputFelts]

DeployAccounts ==
    [kind : {"DeployAccount"}, class_hash : InputFelts, contract_address_salt : InputFelts,
     constructor_calldata : Calldatas, max_fee : InputFelts, nonce : InputFelts]

Deploys ==
    [kind : {"Deploy"}, class_hash : InputFelts, contract_address_salt : InputFelts,
     constructor_calldata : Calldatas]

L1Handlers ==
    [kind : {"L1Handler"}, contract_address : InputFelts,
     entry_point_selector : InputFelts, calldata : Calldatas, nonce : InputFelts]

\* enum Transaction
Transactions ==
    InvokeV0s \cup InvokeV1s \cup DeclareV0s \cup DeclareV1s \cup DeclareV2s
    \cup DeployAccounts \cup Deploys \cup L1Handlers

\* enum UserTransaction: Declare, DeployAccount and Invoke only
IsUserTransaction(t) == t.kind \in {"Declare", "DeployAccount", "Invoke"}

(***************************************************************************)
(* State machine: a transaction value is built, then one of the public     *)
(* operations is applied to it.                                            *)
(***************************************************************************)
Init ==
    /\ tx \in Transactions
    /\ key \in Keys
    /\ op = "built"
    /\ chain_id = 0
    /\ is_query = FALSE
    /\ block_number = None
    /\ fed = <<>>
    /\ hash = 0
    /\ address = 0

\* Transaction::compute_hash::<H>(chain_id, is_query, block_number)
ComputeTransactionHash ==
    /\ op = "built"
    /\ \E c \in ChainIds, q \in BOOLEAN, b \in BlockNumbers :
          LET r == Transaction_compute_hash(tx, c, q, b)
          IN  /\ chain_id' = c
              /\ is_query' = q
              /\ block_number' = b
              /\ fed' = r.fed
              /\ hash' = r.hash
    /\ op' = "Transaction"
    /\ UNCHANGED <<tx, key, address>>

\* UserTransaction::compute_hash::<H>(chain_id, is_query, block_number)
ComputeUserTransactionHash ==
    /\ op = "built"
    /\ IsUserTransaction(tx)
    /\ \E c \in ChainIds, q \in BOOLEAN, b \in BlockNumbers :
          LET r == UserTransaction_compute_hash(tx, c, q, b)
          IN  /\ chain_id' = c
              /\ is_query' = q
              /\ block_number' = b
              /\ fed' = r.fed
              /\ hash' = r.hash
    /\ op' = "UserTransaction"
    /\ UNCHANGED <<tx, key, address>>

\* DeployAccountTransaction::get_account_address / DeployTransaction::get_account_address
GetAccountAddress ==
    /\ op = "built"
    /\ tx.kind \in {"DeployAccount", "Deploy"}
    /\ address' = IF tx.kind = "Deploy"
                  THEN DeployTransaction_get_account_address(tx)
                  ELSE DeployAccountTransaction_get_account_address(tx)
    /\ op' = "address"
    /\ UNCHANGED <<tx, key, chain_id, is_query, block_number, fed, hash>>

Next ==
    \/ ComputeTransactionHash
    \/ ComputeUserTransactionHash
    \/ GetAccountAddress

Spec == Init /\ [][Next]_vars

TypeOK ==
    /\ tx \in Transactions
    /\ key \in Keys
    /\ op \in {"built", "Transaction", "UserTransaction", "address"}
    /\ chain_id \in ChainIds
    /\ is_query \in BOOLEAN
    /\ block_number \in BlockNumbers
    /\ fed \in Seq(Felt)
    /\ hash \in Felt
    /\ address \in Felt

(***************************************************************************)
(* Properties.                                                             *)
(***************************************************************************)
Hashed == op \in {"Transaction", "UserTransaction"}

IsInvokeV0 == tx.kind = "Invoke" /\ tx.version = 0
IsInvokeV1 == tx.kind = "Invoke" /\ tx.version = 1

\* hash(calldata) of the transaction in the state, for the variants that carry calldata
CalldataHash == compute_hash_on_elements(tx.calldata)

\* C1: L1Handler era selection with inclusive thresholds: a present height
\* h <= LEGACY_L1_HANDLER_BLOCK feeds the pre-legacy elements (address,
\* selector, hash(calldata), chain id after the prefix), a height above it and
\* <= LEGACY_BLOCK_NUMBER feeds the legacy elements (the same plus the nonce),
\* and a height > LEGACY_BLOCK_NUMBER feeds the current elements (version 0,
\* address, selector, hash(calldata), fee 0, chain id, nonce after the prefix).
C1_L1HandlerInclusiveThresholds ==
    (op = "Transaction" /\ tx.kind = "L1Handler" /\ block_number # None) =>
        LET h == block_number[1]
        IN  /\ h <= LEGACY_L1_HANDLER_BLOCK =>
                   Tail(fed) = <<tx.contract_address, tx.entry_point_selector,
                                 CalldataHash, chain_id>>
            /\ (LEGACY_L1_HANDLER_BLOCK < h /\ h <= LEGACY_BLOCK_NUMBER) =>
                   Tail(fed) = <<tx.contract_address, tx.entry_point_selector,
                                 CalldataHash, chain_id, tx.nonce>>
            /\ h > LEGACY_BLOCK_NUMBER =>
                   Tail(fed) = <<0, tx.contract_address, tx.entry_point_selector,
                                 CalldataHash, 0, chain_id, tx.nonce>>

C3_GeneralCutoffInclusive ==
    (op = "Transaction" /\ block_number # None) =>
        LET h == block_number[1]
        IN  /\ IsInvokeV0 =>
                   IF h > LEGACY_BLOCK_NUMBER
                   THEN /\ Len(fed) = 7
                        /\ fed[1] = INVOKE_PREFIX
                        /\ SubSeq(fed, 3, 7) =
                               <<tx.contract_address, tx.entry_point_selector,
                                 CalldataHash, tx.max_fee, chain_id>>
                   ELSE fed = <<INVOKE_PREFIX, tx.contract_address,
                                tx.entry_point_selector, CalldataHash, chain_id>>
            /\ tx.kind = "Deploy" =>
                   LET derived == DeployTransaction_get_account_address(tx)
                       ctor_hash == compute_hash_on_elements(tx.constructor_calldata)
                   IN  IF h > LEGACY_BLOCK_NUMBER
                       THEN fed = <<DEPLOY_PREFIX, 0, derived, CONSTRUCTOR_SELECTOR,
                                    ctor_hash, 0, chain_id>>
                       ELSE fed = <<DEPLOY_PREFIX, derived, CONSTRUCTOR_SELECTOR,
                                    ctor_hash, chain_id>>

C3_Witness ==
    /\ op = "Transaction"
    /\ IsInvokeV0
    /\ block_number = Some(LEGACY_BLOCK_NUMBER)
    /\ Len(fed) = 5

\* C4 (as stated): for Invoke V0 above the general cutoff the version element
\* is 0 for both values of the query flag.
C4_InvokeV0VersionAlwaysZero ==
    (op = "Transaction" /\ IsInvokeV0 /\ Option_gt(block_number, Some(LEGACY_BLOCK_NUMBER))) =>
        fed = <<INVOKE_PREFIX, 0, tx.contract_address, tx.entry_point_selector,
                CalldataHash, tx.max_fee, chain_id>>

\* C4 (amended): for Invoke V0 above the general cutoff the version element is
\* 0 when the query flag is false and SIMULATE_TX_VERSION_OFFSET when it is
\* true; the other six elements are as stated.
C4_InvokeV0VersionFollowsQuery ==
    (op = "Transaction" /\ IsInvokeV0 /\ Option_gt(block_number, Some(LEGACY_BLOCK_NUMBER))) =>
        fed = <<INVOKE_PREFIX,
                IF is_query THEN SIMULATE_TX_VERSION_OFFSET ELSE 0,
                tx.contract_address, tx.entry_point_selector,
                CalldataHash, tx.max_fee, chain_id>>

C4_Witness ==
    /\ op = "Transaction"
    /\ IsInvokeV0
    /\ is_query
    /\ Option_gt(block_number, Some(LEGACY_BLOCK_NUMBER))
    /\ Len(fed) = 7
    /\ fed[2] = SIMULATE_TX_VERSION_OFFSET
    /\ fed[2] # 0

\* C5: toggling the query flag changes exactly the version slot, by the
\* simulate offset, for Invoke V1, Declare V2 and DeployAccount, and changes
\* nothing for Invoke V0 in the legacy era, Declare V0, Declare V1, Deploy and
\* L1Handler.
C5_QueryOffsetIsolation ==
    op = "Transaction" =>
        LET other == Transaction_compute_hash(tx, chain_id, ~is_query, block_number).fed
            base == IF tx.kind = "Declare" THEN 2 ELSE 1
            versioned == \/ IsInvokeV1
                         \/ (tx.kind = "Declare" /\ tx.version = 2)
                         \/ tx.kind = "DeployAccount"
            unversioned == \/ (IsInvokeV0
                               /\ ~Option_gt(block_number, Some(LEGACY_BLOCK_NUMBER)))
                           \/ (tx.kind = "Declare" /\ tx.version \in {0, 1})
                           \/ tx.kind = "Deploy"
                           \/ tx.kind = "L1Handler"
        IN  /\ versioned =>
                   /\ Len(fed) = Len(other)
                   /\ \A i \in 1 .. Len(fed) : (fed[i] # other[i]) <=> (i = 2)
                   /\ fed[2] = IF is_query
                               THEN (base + SIMULATE_TX_VERSION_OFFSET) % PRIME
                               ELSE base
                   /\ other[2] = IF is_query
                                 THEN base
                                 ELSE (base + SIMULATE_TX_VERSION_OFFSET) % PRIME
            /\ unversioned => fed = other

C5_Witness ==
    /\ op = "Transaction"
    /\ IsInvokeV1
    /\ is_query
    /\ fed[2] = 1 + SIMULATE_TX_VERSION_OFFSET

\* The hash of the five address elements before the reduction
RawAddressHash ==
    compute_hash_on_elements(
        <<PREFIX_CONTRACT_ADDRESS, 0, tx.contract_address_salt, tx.class_hash,
          compute_hash_on_elements(tx.constructor_calldata)>>)

\* C6: the derived address of Deploy and DeployAccount is the hash of
\* [PREFIX_CONTRACT_ADDRESS, 0, salt, class_hash, hash(constructor_calldata)]
\* reduced modulo ADDR_BOUND, hence strictly below ADDR_BOUND.
C6_AddressBound ==
    op = "address" =>
        /\ address < ADDR_BOUND
        /\ address = RawAddressHash % ADDR_BOUND

C6_Witness ==
    /\ op = "address"
    /\ tx.kind = "Deploy"
    /\ RawAddressHash >= ADDR_BOUND
    /\ address < ADDR_BOUND

\* C7: a Deploy and a DeployAccount built from the same salt, class hash and
\* constructor calldata derive the same address, whatever max_fee and nonce
\* are, and that address is the element at the contract-address position of
\* the sequence fed to the hash, for every chain id, query flag and height.
C7_AddressConsistency ==
    tx.kind \in {"Deploy", "DeployAccount"} =>
        LET asDeploy == [kind |-> "Deploy", class_hash |-> tx.class_hash,
                         contract_address_salt |-> tx.contract_address_salt,
                         constructor_calldata |-> tx.constructor_calldata]
            asDeployAccount(f, n) ==
                [kind |-> "DeployAccount", class_hash |-> tx.class_hash,
                 contract_address_salt |-> tx.contract_address_salt,
                 constructor_calldata |-> tx.constructor_calldata,
                 max_fee |-> f, nonce |-> n]
        IN  /\ op = "address" =>
                   /\ address = DeployTransaction_get_account_address(asDeploy)
                   /\ \A f \in InputFelts, n \in InputFelts :
                          DeployAccountTransaction_get_account_address(asDeployAccount(f, n))
                              = address
            /\ (Hashed /\ tx.kind = "DeployAccount") =>
                   fed[3] = DeployTransaction_get_account_address(asDeploy)
            /\ (Hashed /\ tx.kind = "Deploy") =>
                   fed[IF Len(fed) = 7 THEN 3 ELSE 2] =
                       DeployAccountTransaction_get_account_address(asDeployAccount(0, 0))

C7_Witness ==
    /\ op = "Transaction"
    /\ tx.kind = "DeployAccount"
    /\ tx.class_hash # tx.contract_address_salt
    /\ tx.constructor_calldata # <<>>
    /\ fed[3] = DeployTransaction_get_account_address(
                    [kind |-> "Deploy", class_hash |-> tx.class_hash,
                     contract_address_salt |-> tx.contract_address_salt,
                     constructor_calldata |-> tx.constructor_calldata])

\* C8: for Invoke V1 with the query flag false, whatever the height, the
\* sequence fed to the hash is the 8 elements
\* [invoke prefix, 1, sender, 0, hash(calldata), max_fee, chain id, nonce];
\* the calldata enters only through its hash.
C8_InvokeV1Sequence ==
    (Hashed /\ IsInvokeV1 /\ ~is_query) =>
        /\ Len(fed) = 8
        /\ fed = <<INVOKE_PREFIX, 1, tx.sender_address, 0, CalldataHash,
                   tx.max_fee, chain_id, tx.nonce>>

C8_Witness ==
    /\ op = "Transaction"
    /\ IsInvokeV1
    /\ ~is_query
    /\ Len(tx.calldata) = MaxCalldataLen
    /\ block_number # None
    /\ Len(fed) = 8

\* C9: with an absent height Invoke V0 and Deploy feed their legacy 5-element
\* sequence, while L1Handler feeds its current 8-element sequence with the
\* l1_handler prefix, version 0 and fee 0.
C9_AbsentHeight ==
    (op = "Transaction" /\ block_number = None) =>
        /\ IsInvokeV0 =>
               fed = <<INVOKE_PREFIX, tx.contract_address, tx.entry_point_selector,
                       CalldataHash, chain_id>>
        /\ tx.kind = "Deploy" =>
               fed = <<DEPLOY_PREFIX, DeployTransaction_get_account_address(tx),
                       CONSTRUCTOR_SELECTOR,
                       compute_hash_on_elements(tx.constructor_calldata), chain_id>>
        /\ tx.kind = "L1Handler" =>
               fed = <<L1_HANDLER_PREFIX, 0, tx.contract_address,
                       tx.entry_point_selector, CalldataHash, 0, chain_id, tx.nonce>>

C9_Witness ==
    /\ op = "Transaction"
    /\ tx.kind = "L1Handler"
    /\ block_number = None
    /\ Len(fed) = 8

\* C10: UserTransaction::compute_hash gives the same sequence and hash for
\* every block_number; for a wrapped Invoke V0 it is always the legacy
\* 5-element sequence, also where Transaction::compute_hash on the same
\* Invoke V0 and height feeds the current 7-element one.
C10_UserTransactionIgnoresHeight ==
    op = "UserTransaction" =>
        /\ \A b \in BlockNumbers :
               UserTransaction_compute_hash(tx, chain_id, is_query, b)
                   = [fed |-> fed, hash |-> hash]
        /\ IsInvokeV0 =>
               /\ fed = <<INVOKE_PREFIX, tx.contract_address, tx.entry_point_selector,
                          CalldataHash, chain_id>>
               /\ Option_gt(block_number, Some(LEGACY_BLOCK_NUMBER)) =>
                      Len(Transaction_compute_hash(tx, chain_id, is_query,
                                                   block_number).fed) = 7

C10_Witness ==
    /\ op = "UserTransaction"
    /\ IsInvokeV0
    /\ block_number = Some(LEGACY_BLOCK_NUMBER + 1)
    /\ Len(fed) = 5

====
